---- MODULE Spec2Model ----
(***************************************************************************)
(* MiLoad (src/miload.py): a load generator.  start_procs forks            *)
(* args.processes processes; each runs main, which runs a pool of          *)
(* args.threads worker threads (flood, one_tub or many_users), merges the  *)
(* workers' result lists, aggregates them and puts one summary on its      *)
(* queue; start_procs takes one summary per queue and prints the totals.   *)
(*                                                                         *)
(* Spec is this local fan-out from the first line of start_procs.          *)
(* DriverSpec is the whole program from its parsed command line: the       *)
(* driver (lines 425-449), start_remote_instances with one ssh launcher    *)
(* thread per host, and the local fan-out beside them.                     *)
(*                                                                         *)
(* Time is a discrete clock `now`.  A thread that can run does so before   *)
(* the clock advances; a sleep(x) returns once x ticks have passed and a   *)
(* request returns after a latency the environment chooses.                *)
(***************************************************************************)
EXTENDS Integers, Sequences, FiniteSets, TLC

\* ---------------------------------------------------------------- bounds
MaxProcs    == 2     \* args.processes ranges over 1..MaxProcs
MaxThreads  == 2     \* args.threads ranges over 1..MaxThreads
MaxWorkers  == 2     \* processes * threads is at most MaxWorkers
MaxDuration == 6     \* args.duration ranges over 1..MaxDuration (ticks)
MaxLatency  == 1     \* a request returns after 1..MaxLatency ticks
MaxTime     == 40    \* the clock stops here
IterCap     == 3     \* the range(1000) of one_tub and many_users, scaled down
ShortStreet == 3     \* street lengths of the address lists the model draws
MidStreet   == 5
LongStreet  == 11
MaxLoad     == 2     \* with several workers, workers * (steps of one user) <= MaxLoad
MaxHosts    == 2     \* the hosts file has 1..MaxHosts lines

\* ------------------------------------------------------ program constants
Stagger       == 1   \* time.sleep(0.009) between thread starts, in ticks
TypingSleep   == 1   \* time.sleep(.3) after each typed request, in ticks
Overhead      == 1   \* the 0.04 of the delay formula: one tick
TicksPerSec   == 25  \* 1 / 0.04
MaxSteps      == 8   \* min(street_len-3, 8)
MinPrefix     == 4   \* street_str[7:11+i]: the first typed prefix
SecPerMin     == 60  \* user_rate = total_users/all_elapsed*60

None == -1           \* Python None / an absent value

Procs   == 1..MaxProcs
Threads == 1..MaxThreads

\* ------------------------------------------------------------------ urls
\* A URL is its query: the street number and the street (a sequence of
\* characters, here 1..L); prefix says whether the 38-character
\* scheme://host/path? part is still in front.
Street(L) == [k \in 1..L |-> k]

Url(L) == [prefix |-> TRUE, num |-> 1, street |-> Street(L)]

NoUrl == [prefix |-> FALSE, num |-> 0, street |-> << >>]

\* url[38:]
StripPrefix(url) == [url EXCEPT !.prefix = FALSE]

\* the address lists a run may be given (read_static_addrs / default_urls)
UrlLists ==
    { << Url(ShortStreet) >>, << Url(MidStreet) >>, << Url(LongStreet) >>,
      << Url(ShortStreet), Url(MidStreet) >> }

\* --------------------------------------------------------------- records
\* A result dict: keys is the set of keys present; issue_request fills all
\* of them at once, or none when the connection is aborted.
AllKeys == {"start", "end", "url", "ret_code", "elapsed", "num_matches"}

EmptyDict ==
    [keys |-> {}, start |-> None, end |-> None, url |-> NoUrl,
     elapsed |-> None, num_matches |-> None]

\* the rows the address service returns for a query: at most 5 (max=5)
ServerRows(url) == IF Len(url.street) > 5 THEN 5 ELSE Len(url.street)

\* ------------------------------------------------------------ arithmetic
RECURSIVE SumSeq(_)
SumSeq(s) == IF s = << >> THEN 0 ELSE Head(s) + SumSeq(Tail(s))

Min(a, b) == IF a < b THEN a ELSE b

\* delay = num_threads/rate_goal - 0.04, in ticks of 0.04 s (rounded down;
\* the sign is exact: delay < 0 iff 25 * num_threads < rate_goal)
Delay(num_threads, rate_goal) ==
    (num_threads * TicksPerSec) \div rate_goal - Overhead

\* the rate goals the model draws: they give delays below, at and above 0
RateGoals == {TicksPerSec, 2 * TicksPerSec}

\* ----------------------------------------------------------------- state
VARIABLES
    args,        \* the parsed command line (lines 397-412)
    urls,        \* the address list main reads (lines 281-293)
    now,         \* time.time(), in ticks
    coord,       \* start_procs: its position, loop index, stats and output
    queues,      \* queues[p]: the Queue start_procs made for process p
    proc,        \* proc[p]: the main thread of process p (main, soak, flood)
    worker,      \* worker[p][t]: thread t of process p
    results,     \* results[p][t]: the result list of thread t of process p
    user_count,  \* user_count[p][t]: user_count_list_list[t] of process p
    csv,         \* the file 'results.csv' in the working directory
    driver,      \* the main thread of the program (lines 425-449)
    hosts,       \* the lines of the file args.nodes names
    launch,      \* start_remote_instances and its thread_start_remote threads
    remote_returns_list_list   \* one list of outputs per host (lines 430-432)

\* the state of the driver and of the remote fan-out
driver_vars == << driver, hosts, launch, remote_returns_list_list >>

vars == << args, urls, now, coord, queues, proc, worker, results, user_count,
           csv, driver_vars >>

\* the workload main selects (lines 295-303) and soak's choice (line 251)
Mode ==
    IF args.soak = None THEN "flood"
    ELSE IF args.user THEN "users" ELSE "tub"

\* the command lines the model draws
Configs ==
    { a \in [processes : 1..MaxProcs, threads : 1..MaxThreads,
             soak : {None} \cup RateGoals, duration : 1..MaxDuration,
             user : BOOLEAN] :
        /\ a.processes * a.threads <= MaxWorkers
        /\ a.soak = None => (~a.user /\ a.duration = 1) }

\* one_user's end_at (lines 186-188) for a street of street_len characters
EndAt(street_len) ==
    LET e == Min(street_len - 3, MaxSteps)
    IN  IF e < 1 THEN 1 ELSE e

IdleProc ==
    [pc |-> "unborn", i |-> 0, wake |-> 0, delay |-> 0, all_start |-> None,
     all_elapsed |-> None, results |-> << >>, total_users |-> 0,
     results_df_sort |-> << >>, avg_time |-> [sum |-> 0, count |-> None],
     user_rate |-> None]

IdleWorker ==
    [pc |-> "idle", i |-> None, step |-> None, end_at |-> None,
     url |-> NoUrl, typed_url |-> NoUrl, begin |-> None, wake |-> 0,
     delay |-> 0, start |-> None, target |-> None, requests |-> None,
     session |-> "none"]

NoReport ==
    [total_users |-> None, total_results |-> None, elapsed |-> None,
     user_rate_sum |-> None]

\* no file 'results.csv' yet
NoFile == << >>

\* the driver before line 425: nothing bound, no thread made
IdleDriver ==
    [pc |-> "open", bound |-> FALSE, thr_list |-> << >>, i |-> 0,
     error |-> "none", printed |-> << >>]

\* start_remote_instances before its thread is started
IdleLaunch == [pc |-> "unborn", cmdline |-> << >>, threads |-> << >>, i |-> 0]

\* start_procs from its first line: the driver has started it as its only
\* thread and waits in the join of line 445
Init ==
    /\ args \in Configs
    /\ urls \in UrlLists
    /\ \/ args.processes * args.threads = 1
       \/ \A k \in 1..Len(urls) :
            args.processes * args.threads * EndAt(Len(urls[k].street)) <= MaxLoad
    /\ now = 0
    /\ coord = [pc |-> "spawn", p |-> 1, stats |-> << >>, report |-> NoReport]
    /\ queues = [p \in Procs |-> << >>]
    /\ proc = [p \in Procs |-> IdleProc]
    /\ worker = [p \in Procs |-> [t \in Threads |-> IdleWorker]]
    /\ results = [p \in Procs |-> [t \in Threads |-> << >>]]
    /\ user_count = [p \in Procs |-> [t \in Threads |-> << >>]]
    /\ csv = NoFile
    /\ driver = [IdleDriver EXCEPT !.pc = "join", !.thr_list = << "start_procs" >>]
    /\ hosts = << >>
    /\ launch = IdleLaunch
    /\ remote_returns_list_list = << >>

\* ------------------------------------------------------------- DataFrame
\* pd.DataFrame(results): one row per dict, the columns are the keys seen
Columns(rows) == UNION { rows[k].keys : k \in 1..Len(rows) }

RECURSIVE SelectRows(_, _)
\* the rows of `rows` that have (have = TRUE) or lack the key "start"
SelectRows(rows, have) ==
    IF rows = << >> THEN << >>
    ELSE LET r == Head(rows)
             rest == SelectRows(Tail(rows), have)
         IN  IF ("start" \in r.keys) = have THEN << r >> \o rest ELSE rest

RECURSIVE InsertByStart(_, _)
InsertByStart(r, sorted) ==
    IF sorted = << >> THEN << r >>
    ELSE IF r.start < Head(sorted).start THEN << r >> \o sorted
    ELSE << Head(sorted) >> \o InsertByStart(r, Tail(sorted))

RECURSIVE SortByStart(_)
SortByStart(rows) ==
    IF rows = << >> THEN << >>
    ELSE InsertByStart(rows[Len(rows)], SortByStart(SubSeq(rows, 1, Len(rows) - 1)))

\* an export that is not sorted
SortValuesUnsorted(rows) == rows

\* results_df.sort_values(by='start'): ascending, rows without a start
\* (NaN) last; only called when the column exists.  Rows with equal starts
\* keep their order here; nothing below relies on the order of ties.
SortValues(rows) == SortByStart(SelectRows(rows, TRUE)) \o SelectRows(rows, FALSE)

RECURSIVE ElapsedOf(_)
\* the non-NaN values of column "elapsed"
ElapsedOf(rows) ==
    IF rows = << >> THEN << >>
    ELSE (IF "elapsed" \in Head(rows).keys THEN << Head(rows).elapsed >> ELSE << >>)
         \o ElapsedOf(Tail(rows))

NaN == [sum |-> 0, count |-> 0]

\* results_df['elapsed'].mean(): the mean of the non-NaN values as the
\* fraction sum/count, NaN when there is none
Mean(rows) ==
    LET v == ElapsedOf(rows)
    IN  IF v = << >> THEN NaN ELSE [sum |-> SumSeq(v), count |-> Len(v)]

\* ------------------------------------------------------------ start_procs
\* for p in range(args.processes): Queue(), Process(target=main, ...), start()
StartProc ==
    /\ coord.pc = "spawn"
    /\ proc[coord.p].pc = "unborn"
    /\ proc' = [proc EXCEPT ![coord.p].pc = "main"]
    /\ coord' = IF coord.p < args.processes
                THEN [coord EXCEPT !.p = coord.p + 1]
                ELSE [coord EXCEPT !.pc = "collect", !.p = 1]
    /\ UNCHANGED << args, urls, now, queues, worker, results, user_count, csv, driver_vars >>

\* a start_procs that reads only the first queue
QueuesToReadFirstOnly == Min(1, args.processes)

\* the queues start_procs reads: for q in queues
QueuesToRead == args.processes

\* stats.append(q.get()): blocks until the queue holds a message
GetStats ==
    /\ coord.pc = "collect"
    /\ queues[coord.p] # << >>
    /\ queues' = [queues EXCEPT ![coord.p] = Tail(@)]
    /\ coord' = IF coord.p < QueuesToRead
                THEN [coord EXCEPT !.stats = Append(@, Head(queues[coord.p])),
                                   !.p = coord.p + 1]
                ELSE [coord EXCEPT !.stats = Append(@, Head(queues[coord.p])),
                                   !.pc = "totals", !.p = 1]
    /\ UNCHANGED << args, urls, now, proc, worker, results, user_count, csv, driver_vars >>

RECURSIVE SumField(_, _)
\* the for s in stats loop: the sum of one field
SumField(stats, f) ==
    IF stats = << >> THEN 0 ELSE Head(stats)[f] + SumField(Tail(stats), f)

\* totals whose elapsed time is the sum, not the mean
TotalsElapsedSummed(stats) ==
    [total_users   |-> args.processes * args.threads,
     total_results |-> SumField(stats, "result_count"),
     elapsed       |-> SumField(stats, "elapsed"),
     user_rate_sum |-> SumField(stats, "user_rate")]

\* lines 369-389: the totals, as printed (int() of each)
Totals(stats) ==
    [total_users   |-> args.processes * args.threads,
     total_results |-> SumField(stats, "result_count"),
     elapsed       |-> SumField(stats, "elapsed") \div Len(stats),
     user_rate_sum |-> SumField(stats, "user_rate")]

PrintTotals ==
    /\ coord.pc = "totals"
    /\ coord' = [coord EXCEPT !.report = Totals(coord.stats), !.pc = "join", !.p = 1]
    /\ UNCHANGED << args, urls, now, queues, proc, worker, results, user_count, csv, driver_vars >>

\* for p in procs: p.join()
JoinProc ==
    /\ coord.pc = "join"
    /\ proc[coord.p].pc \in {"exited", "raised"}
    /\ coord' = IF coord.p < args.processes
                THEN [coord EXCEPT !.p = coord.p + 1]
                ELSE [coord EXCEPT !.pc = "done"]
    /\ UNCHANGED << args, urls, now, queues, proc, worker, results, user_count, csv, driver_vars >>

\* -------------------------------------------------- main, soak and flood
RECURSIVE ChainSkipsFirst(_, _)
\* a merge that loses the first thread's container
ChainSkipsFirst(lists, n) ==
    IF n <= 1 THEN << >> ELSE ChainSkipsFirst(lists, n - 1) \o lists[n]

\* itertools.chain(*results_list_list) over the first n lists
RECURSIVE Chain(_, _)
Chain(lists, n) == IF n = 0 THEN << >> ELSE Chain(lists, n - 1) \o lists[n]

RECURSIVE SumCounts(_, _)
\* for u_count in user_count_list_list: total_users += sum(u_count)
SumCounts(counts, n) ==
    IF n = 0 THEN 0 ELSE SumCounts(counts, n - 1) + SumSeq(counts[n])

\* main up to the creation of the threads (lines 280-303, 144-159, 240-260):
\* flood makes one dict per thread and draws each thread's url
MainStart(p) ==
    /\ proc[p].pc = "main"
    /\ proc' = [proc EXCEPT ![p].pc = "starting", ![p].i = 1, ![p].wake = now,
                            ![p].all_start = now,
                            ![p].delay = IF Mode = "flood" THEN 0
                                         ELSE Delay(args.threads, args.soak)]
    /\ results' = [results EXCEPT ![p] =
                     [t \in Threads |->
                        IF Mode = "flood" /\ t <= args.threads
                        THEN << EmptyDict >> ELSE << >>]]
    /\ \E pick \in [1..args.threads -> 1..Len(urls)] :
         worker' = [worker EXCEPT ![p] =
                      [t \in Threads |->
                         IF Mode = "flood" /\ t <= args.threads
                         THEN [worker[p][t] EXCEPT !.url = urls[pick[t]]]
                         ELSE worker[p][t]]]
    /\ UNCHANGED << args, urls, now, coord, queues, user_count, csv, driver_vars >>

\* a start loop that takes all_start anew at every start, so that the
\* measurement begins with the last start
StartThreadRestartsClock(p) ==
    /\ proc[p].pc = "starting"
    /\ proc[p].i <= args.threads
    /\ now >= proc[p].wake
    /\ worker' = [worker EXCEPT ![p][proc[p].i].pc = "started",
                                ![p][proc[p].i].delay = proc[p].delay]
    /\ proc' = [proc EXCEPT ![p].i = @ + 1, ![p].wake = now + Stagger,
                            ![p].all_start = now]
    /\ UNCHANGED << args, urls, now, coord, queues, results, user_count,
                    csv, driver_vars >>

\* threads[i].start(); time.sleep(0.009)
StartThread(p) ==
    /\ proc[p].pc = "starting"
    /\ proc[p].i <= args.threads
    /\ now >= proc[p].wake
    /\ worker' = [worker EXCEPT ![p][proc[p].i].pc = "started",
                                ![p][proc[p].i].delay = proc[p].delay]
    /\ proc' = [proc EXCEPT ![p].i = @ + 1, ![p].wake = now + Stagger]
    /\ UNCHANGED << args, urls, now, coord, queues, results, user_count, csv, driver_vars >>

\* a soak / flood that merges without joining its threads
JoinThreadsEarly(p) ==
    /\ proc[p].pc = "starting"
    /\ proc[p].i > args.threads
    /\ now >= proc[p].wake
    /\ proc' = [proc EXCEPT
                  ![p].pc = "aggregate",
                  ![p].all_elapsed = now - proc[p].all_start,
                  ![p].results = Chain(results[p], args.threads),
                  ![p].total_users =
                      IF Mode = "flood" THEN 0
                      ELSE SumCounts(user_count[p], args.threads)]
    /\ UNCHANGED << args, urls, now, coord, queues, worker, results, user_count, csv, driver_vars >>

\* the join loop and the rest of soak / flood (lines 164-170, 265-275)
JoinThreads(p) ==
    /\ proc[p].pc = "starting"
    /\ proc[p].i > args.threads
    /\ now >= proc[p].wake
    /\ \A t \in 1..args.threads : worker[p][t].pc = "done"
    /\ proc' = [proc EXCEPT
                  ![p].pc = "aggregate",
                  ![p].all_elapsed = now - proc[p].all_start,
                  ![p].results = Chain(results[p], args.threads),
                  ![p].total_users =
                      IF Mode = "flood" THEN 0
                      ELSE SumCounts(user_count[p], args.threads)]
    /\ UNCHANGED << args, urls, now, coord, queues, worker, results, user_count, csv, driver_vars >>

\* whether lines 305-310 raise: KeyError when the frame lacks the column
\* 'start' or 'elapsed', ZeroDivisionError when all_elapsed is 0
AggregateRaises(rows, all_elapsed) ==
    \/ "start" \notin Columns(rows)
    \/ "elapsed" \notin Columns(rows)
    \/ all_elapsed = 0

\* the stats_dict main puts on its queue (lines 315-318); the float
\* division of line 310 is the integer division of tick counts
StatsDict(rows, total_users, all_elapsed) ==
    [result_count |-> Len(rows),
     elapsed      |-> all_elapsed,
     user_rate    |-> (total_users * SecPerMin) \div all_elapsed]

\* results_df_sort.to_csv('results.csv') (line 307): every process writes
\* the file of this name in the working directory it inherits from the
\* fork, replacing what the file held; only the KeyError of line 306 comes
\* before it
ToCsv(file, rows) ==
    IF "start" \in Columns(rows) THEN SortValues(rows) ELSE file

\* lines 305-319: the frame, its sorted export, the mean, the summary
Aggregate(p) ==
    /\ proc[p].pc = "aggregate"
    /\ csv' = ToCsv(csv, proc[p].results)
    /\ IF AggregateRaises(proc[p].results, proc[p].all_elapsed)
       THEN /\ proc' = [proc EXCEPT ![p].pc = "raised"]
            /\ UNCHANGED queues
       ELSE LET s == StatsDict(proc[p].results, proc[p].total_users,
                               proc[p].all_elapsed)
            IN  /\ proc' = [proc EXCEPT
                              ![p].pc = "exited",
                              ![p].results_df_sort = SortValues(proc[p].results),
                              ![p].avg_time = Mean(proc[p].results),
                              ![p].user_rate = s.user_rate]
                /\ queues' = [queues EXCEPT ![p] = Append(@, s)]
    /\ UNCHANGED << args, urls, now, coord, worker, results, user_count, driver_vars >>

\* --------------------------------------------------------- issue_request
\* start = time.time() and the request sent: it returns after lat ticks
Issue(w, url, target, lat) ==
    [w EXCEPT !.pc = "request", !.start = now, !.typed_url = url,
              !.target = target, !.wake = now + lat]

\* lines 101-109: what a response stores in the dict it was given
Filled(w) ==
    [keys |-> AllKeys, start |-> w.start, end |-> now,
     url |-> StripPrefix(w.typed_url), elapsed |-> now - w.start,
     num_matches |-> ServerRows(w.typed_url)]

\* an issue_request that lets ConnectionError escape: the thread ends
AfterRequestAbortStops(mode, aborted) ==
    IF aborted THEN "done"
    ELSE CASE mode = "flood" -> "done"
           [] mode = "tub"   -> "check"
           [] OTHER          -> "typed"

\* where the caller of issue_request goes on when it returns; a
\* ConnectionError is caught inside (lines 89-92, 96-99), so aborted or not
AfterRequest(mode, aborted) ==
    CASE mode = "flood" -> "done"
      [] mode = "tub"   -> "check"
      [] OTHER          -> "typed"

\* the response arrives: the dict results[p][t][target] is filled
RequestReturns(p, t) ==
    LET w == worker[p][t] IN
    /\ w.pc = "request"
    /\ now >= w.wake
    /\ results' = [results EXCEPT ![p][t][w.target] = Filled(w)]
    /\ worker' = [worker EXCEPT ![p][t].pc = AfterRequest(Mode, FALSE),
                                ![p][t].wake = IF Mode = "users" THEN now + TypingSleep ELSE @]
    /\ UNCHANGED << args, urls, now, coord, queues, proc, user_count, csv, driver_vars >>

\* requests.exceptions.ConnectionError: 'A' is printed, the dict is left as is
RequestAborts(p, t) ==
    LET w == worker[p][t] IN
    /\ w.pc = "request"
    /\ now >= w.wake
    /\ worker' = [worker EXCEPT ![p][t].pc = AfterRequest(Mode, TRUE),
                                ![p][t].wake = IF Mode = "users" THEN now + TypingSleep ELSE @]
    /\ UNCHANGED << args, urls, now, coord, queues, proc, results, user_count, csv, driver_vars >>

\* flood's thread: issue_request(None, url, results[i], i)
FloodIssue(p, t) ==
    /\ Mode = "flood"
    /\ worker[p][t].pc = "started"
    /\ \E lat \in 1..MaxLatency :
         worker' = [worker EXCEPT ![p][t] = Issue(@, @.url, 1, lat)]
    /\ UNCHANGED << args, urls, now, coord, queues, proc, results, user_count, csv, driver_vars >>

\* ---------------------------------------------------------------- one_tub
\* a loop without the cap: while True
RangeHasNextNoCap(i) == TRUE

\* for i in range(1000): whether there is an iteration after iteration i
RangeHasNext(i) == i + 1 < IterCap

\* begin = time.time() and the session (lines 218-222)
TubBegin(p, t) ==
    /\ Mode = "tub"
    /\ worker[p][t].pc = "started"
    /\ worker' = [worker EXCEPT ![p][t].pc = "loop", ![p][t].i = 0,
                                ![p][t].begin = now]
    /\ UNCHANGED << args, urls, now, coord, queues, proc, results, user_count, csv, driver_vars >>

\* results.append({}); url = ...; issue_request(session, url, results[i], i)
TubIssue(p, t) ==
    /\ Mode = "tub"
    /\ worker[p][t].pc = "loop"
    /\ results' = [results EXCEPT ![p][t] = Append(@, EmptyDict)]
    /\ \E k \in 1..Len(urls), lat \in 1..MaxLatency :
         worker' = [worker EXCEPT ![p][t] = Issue(@, urls[k], @.i + 1, lat)]
    /\ UNCHANGED << args, urls, now, coord, queues, proc, user_count, csv, driver_vars >>

\* a one_tub without `if delay < 0: continue`: it sleeps whatever the delay
TubAfterNoSkip(w) ==
    IF now - w.begin > args.duration
    THEN [w EXCEPT !.pc = "done"]
    ELSE [w EXCEPT !.pc = "sleep", !.wake = now + w.delay]

\* the end of an iteration of one_tub (lines 227-231): the next position
TubAfter(w) ==
    IF w.delay < 0
    THEN IF RangeHasNext(w.i) THEN [w EXCEPT !.pc = "loop", !.i = @ + 1]
                              ELSE [w EXCEPT !.pc = "done"]
    ELSE IF now - w.begin > args.duration
    THEN [w EXCEPT !.pc = "done"]
    ELSE [w EXCEPT !.pc = "sleep", !.wake = now + w.delay]

TubCheck(p, t) ==
    /\ Mode = "tub"
    /\ worker[p][t].pc = "check"
    /\ worker' = [worker EXCEPT ![p][t] = TubAfter(@)]
    /\ UNCHANGED << args, urls, now, coord, queues, proc, results, user_count, csv, driver_vars >>

\* time.sleep(delay) returns: the next iteration, or the end of the range
TubWake(p, t) ==
    /\ Mode = "tub"
    /\ worker[p][t].pc = "sleep"
    /\ now >= worker[p][t].wake
    /\ worker' = [worker EXCEPT ![p][t] =
                    IF RangeHasNext(@.i) THEN [@ EXCEPT !.pc = "loop", !.i = @ + 1]
                                         ELSE [@ EXCEPT !.pc = "done"]]
    /\ UNCHANGED << args, urls, now, coord, queues, proc, results, user_count, csv, driver_vars >>

\* ---------------------------------------------------- many_users, one_user
\* a one_user that sends the whole street at every step
TypedUrlWhole(url, i) == url

\* typed_url (lines 177-191): the street cut to street_str[7:11+i]
TypedUrl(url, i) ==
    [url EXCEPT !.street = SubSeq(@, 1, Min(MinPrefix + i, Len(@)))]

\* the dict one_user hands to issue_request at step i: results[i]
TypedTarget(i) == i + 1

\* begin = time.time(); if delay < 0: delay = 0 (lines 203-205)
UsersBegin(p, t) ==
    /\ Mode = "users"
    /\ worker[p][t].pc = "started"
    /\ worker' = [worker EXCEPT ![p][t].pc = "user", ![p][t].i = 0,
                                ![p][t].begin = now,
                                ![p][t].delay = IF @ < 0 THEN 0 ELSE @]
    /\ UNCHANGED << args, urls, now, coord, queues, proc, results, user_count, csv, driver_vars >>

\* url = urls[random...]; one_user up to its loop (lines 207-208, 175-188):
\* a new session, the url parsed, end_at
UserBegin(p, t) ==
    /\ Mode = "users"
    /\ worker[p][t].pc = "user"
    /\ \E k \in 1..Len(urls) :
         worker' = [worker EXCEPT ![p][t].pc = "type", ![p][t].url = urls[k],
                                  ![p][t].step = 0,
                                  ![p][t].session = "open",
                                  ![p][t].end_at = EndAt(Len(urls[k].street))]
    /\ UNCHANGED << args, urls, now, coord, queues, proc, results, user_count, csv, driver_vars >>

\* results.append({}); issue_request(session, typed_url, results[i], i)
TypeIssue(p, t) ==
    /\ Mode = "users"
    /\ worker[p][t].pc = "type"
    /\ results' = [results EXCEPT ![p][t] = Append(@, EmptyDict)]
    /\ \E lat \in 1..MaxLatency :
         worker' = [worker EXCEPT ![p][t] =
                      Issue(@, TypedUrl(@.url, @.step),
                            TypedTarget(@.step), lat)]
    /\ UNCHANGED << args, urls, now, coord, queues, proc, user_count, csv, driver_vars >>

\* what one_user returns after its last step i (line 198)
OneUserReturn(i) == i

\* time.sleep(.3) returns: the next step, or session.close() and return i
TypedWake(p, t) ==
    LET w == worker[p][t] IN
    /\ Mode = "users"
    /\ w.pc = "typed"
    /\ now >= w.wake
    /\ worker' = [worker EXCEPT ![p][t] =
                    IF w.step + 1 < w.end_at
                    THEN [w EXCEPT !.pc = "type", !.step = w.step + 1]
                    ELSE [w EXCEPT !.pc = "ucheck", !.session = "closed",
                                   !.requests = OneUserReturn(w.step)]]
    /\ UNCHANGED << args, urls, now, coord, queues, proc, results, user_count, csv, driver_vars >>

\* a many_users without the duration check
UsersCheckNoBreak(p, t) ==
    LET w == worker[p][t] IN
    /\ Mode = "users"
    /\ w.pc = "ucheck"
    /\ worker' = [worker EXCEPT ![p][t].pc = "usleep",
                                ![p][t].wake = now + w.delay]
    /\ UNCHANGED << args, urls, now, coord, queues, proc, results, user_count,
                    csv, driver_vars >>

\* lines 209-213: break when the duration has passed, else sleep(delay)
UsersCheck(p, t) ==
    LET w == worker[p][t] IN
    /\ Mode = "users"
    /\ w.pc = "ucheck"
    /\ IF now - w.begin > args.duration
       THEN /\ worker' = [worker EXCEPT ![p][t].pc = "done"]
            /\ user_count' = [user_count EXCEPT ![p][t] = Append(@, w.i + 1)]
       ELSE /\ worker' = [worker EXCEPT ![p][t].pc = "usleep",
                                        ![p][t].wake = now + w.delay]
            /\ UNCHANGED user_count
    /\ UNCHANGED << args, urls, now, coord, queues, proc, results, csv, driver_vars >>

\* time.sleep(delay) returns: the next user, or the end of the range and
\* user_count.append(i+1)
UsersWake(p, t) ==
    LET w == worker[p][t] IN
    /\ Mode = "users"
    /\ w.pc = "usleep"
    /\ now >= w.wake
    /\ IF RangeHasNext(w.i)
       THEN /\ worker' = [worker EXCEPT ![p][t].pc = "user", ![p][t].i = @ + 1]
            /\ UNCHANGED user_count
       ELSE /\ worker' = [worker EXCEPT ![p][t].pc = "done"]
            /\ user_count' = [user_count EXCEPT ![p][t] = Append(@, w.i + 1)]
    /\ UNCHANGED << args, urls, now, coord, queues, proc, results, csv, driver_vars >>

\* ------------------------------------------------------------------ time
\* a step of some thread
Step ==
    \/ StartProc
    \/ GetStats
    \/ PrintTotals
    \/ JoinProc
    \/ \E p \in Procs : MainStart(p)
    \/ \E p \in Procs : StartThread(p)
    \/ \E p \in Procs : JoinThreads(p)
    \/ \E p \in Procs : Aggregate(p)
    \/ \E p \in Procs, t \in Threads : RequestReturns(p, t)
    \/ \E p \in Procs, t \in Threads : RequestAborts(p, t)
    \/ \E p \in Procs, t \in Threads : FloodIssue(p, t)
    \/ \E p \in Procs, t \in Threads : TubBegin(p, t)
    \/ \E p \in Procs, t \in Threads : TubIssue(p, t)
    \/ \E p \in Procs, t \in Threads : TubCheck(p, t)
    \/ \E p \in Procs, t \in Threads : TubWake(p, t)
    \/ \E p \in Procs, t \in Threads : UsersBegin(p, t)
    \/ \E p \in Procs, t \in Threads : UserBegin(p, t)
    \/ \E p \in Procs, t \in Threads : TypeIssue(p, t)
    \/ \E p \in Procs, t \in Threads : TypedWake(p, t)
    \/ \E p \in Procs, t \in Threads : UsersCheck(p, t)
    \/ \E p \in Procs, t \in Threads : UsersWake(p, t)

\* some thread sleeps or waits for a response due later than now
Waiting ==
    \/ \E p \in Procs : proc[p].pc = "starting" /\ proc[p].wake > now
    \/ \E p \in Procs, t \in Threads :
         /\ worker[p][t].pc \in {"request", "sleep", "typed", "usleep"}
         /\ worker[p][t].wake > now

\* the clock advances when every thread is blocked and one waits for it
Tick ==
    /\ now < MaxTime
    /\ Waiting
    /\ ~ ENABLED Step
    /\ now' = now + 1
    /\ UNCHANGED << args, urls, coord, queues, proc, worker, results, user_count, csv, driver_vars >>

Next == Step \/ Tick

Spec == Init /\ [][Next]_vars

\* ------------------------------------------- the remote command line
\* the hosts file: one <user>@<host> per line, here 1..MaxHosts lines
HostName(k) == "user@host" \o ToString(k)

HostLists == { [k \in 1..n |-> HostName(k)] : n \in 1..MaxHosts }

\* inputfile=None (line 400): no file of addresses is named
NoInput == ""

\* {value} in an f-string: str(value)
Format(v) == IF v = None THEN "None" ELSE ToString(v)

\* line 342 and cmdline.split() (line 324): the tokens of the command
CmdLine(a, host) ==
    << "ssh", host, "/usr/bin/python3", "MiLoad/miload.py", "-r",
       "-i", "MiLoad/addresses", "-s", Format(a.soak), "-t", Format(a.threads),
       "-d", Format(a.duration), "-u", "-p", Format(a.processes) >>

\* the integers a command line of the model can name
ArgInts == 0..(2 * TicksPerSec)

\* type=int: int(s) succeeds on a decimal numeral
IsInt(s) == \E n \in ArgInts : ToString(n) = s

ParseInt(s) == CHOOSE n \in ArgInts : ToString(n) = s

\* the defaults of lines 398-408; error: parse_args exits with a usage error
DefaultArgs ==
    [duration |-> 5, threads |-> 10, inputfile |-> NoInput, soak |-> None,
     session |-> FALSE, user |-> FALSE, processes |-> 1, remote |-> FALSE,
     nodes |-> "", error |-> FALSE]

\* the destination of each option (lines 398-407)
OptField ==
    [o \in {"-d", "-t", "-s", "-p", "-i", "-n", "-e", "-u", "-r"} |->
       CASE o = "-d" -> "duration" [] o = "-t" -> "threads"
         [] o = "-s" -> "soak"     [] o = "-p" -> "processes"
         [] o = "-i" -> "inputfile" [] o = "-n" -> "nodes"
         [] o = "-e" -> "session"  [] o = "-u" -> "user"
         [] OTHER    -> "remote"]

RECURSIVE ParseArgs(_, _, _)
\* parser.parse_args() over tokens[k..]: store_true flags, string options
\* and type=int options
ParseArgs(tokens, k, ns) ==
    IF k > Len(tokens) THEN ns
    ELSE LET tok == tokens[k] IN
         IF tok \in {"-e", "-u", "-r"}
         THEN ParseArgs(tokens, k + 1, [ns EXCEPT ![OptField[tok]] = TRUE])
         ELSE IF tok \in {"-i", "-n"} /\ k < Len(tokens)
         THEN ParseArgs(tokens, k + 2, [ns EXCEPT ![OptField[tok]] = tokens[k + 1]])
         ELSE IF tok \in {"-d", "-t", "-s", "-p"} /\ k < Len(tokens)
                 /\ IsInt(tokens[k + 1])
         THEN ParseArgs(tokens, k + 2,
                        [ns EXCEPT ![OptField[tok]] = ParseInt(tokens[k + 1])])
         ELSE [ns EXCEPT !.error = TRUE]

\* the args of the instance the command starts on the host: ssh runs
\* /usr/bin/python3 MiLoad/miload.py with the tokens after the script
RemoteArgs(cmdline) == ParseArgs(cmdline, 5, DefaultArgs)

\* what subprocess.run can capture from the command's standard output:
\* nothing when the launch or the instance fails (a usage error goes to
\* stderr), else the JSON line of line 382, possibly after it nothing
Outputs(cmdline) ==
    IF RemoteArgs(cmdline).error THEN {""} ELSE {"", "{user_rate}"}

\* host+':::'+stdout (line 327)
Tagged(host, stdout) == host \o ":::" \o stdout

\* ------------------------------------------------------------ the driver
local_vars == << urls, now, queues, proc, worker, results, user_count, csv >>

\* lines 426-432: without -r the hosts file is read and one list per host
\* made; open('') raises when no -n was given
OpenNodes ==
    /\ driver.pc = "open"
    /\ IF args.remote
       THEN /\ driver' = [driver EXCEPT !.pc = "remote"]
            /\ UNCHANGED remote_returns_list_list
       ELSE IF args.nodes = ""
       THEN /\ driver' = [driver EXCEPT !.pc = "raised",
                                        !.error = "FileNotFoundError"]
            /\ UNCHANGED remote_returns_list_list
       ELSE /\ driver' = [driver EXCEPT !.pc = "remote", !.bound = TRUE]
            /\ remote_returns_list_list' = [h \in 1..Len(hosts) |-> << >>]
    /\ UNCHANGED << args, coord, hosts, launch, local_vars >>

\* lines 434-439: with -n the thread of start_remote_instances is made from
\* remote_returns_list_list (a NameError when it is not bound) and started
StartRemoteThread ==
    /\ driver.pc = "remote"
    /\ IF args.nodes = ""
       THEN /\ driver' = [driver EXCEPT !.pc = "local"]
            /\ UNCHANGED launch
       ELSE IF ~driver.bound
       THEN /\ driver' = [driver EXCEPT !.pc = "raised", !.error = "NameError"]
            /\ UNCHANGED launch
       ELSE /\ driver' = [driver EXCEPT
                            !.pc = "local",
                            !.thr_list = Append(@, "start_remote_instances")]
            /\ launch' = [launch EXCEPT !.pc = "build"]
    /\ UNCHANGED << args, coord, hosts, remote_returns_list_list, local_vars >>

\* lines 441-443: the thread of start_procs is made and started
StartLocalThread ==
    /\ driver.pc = "local"
    /\ driver' = [driver EXCEPT !.pc = "join", !.i = 0,
                                !.thr_list = Append(@, "start_procs")]
    /\ coord' = [coord EXCEPT !.pc = "spawn"]
    /\ UNCHANGED << args, hosts, launch, remote_returns_list_list, local_vars >>

\* the thread has ended
Finished(thread) ==
    IF thread = "start_procs" THEN coord.pc = "done" ELSE launch.pc = "done"

\* a driver that joins only the first thread of thr_list
JoinsFirstOnly == Min(1, Len(driver.thr_list))

\* for i in range(2)
Joins == 2

\* lines 444-445: thr_list[i].join() for i in range(2); thr_list[i] raises
\* an IndexError when fewer threads were made
JoinThread ==
    /\ driver.pc = "join"
    /\ IF driver.i >= Joins
       THEN driver' = [driver EXCEPT !.pc = "print"]
       ELSE IF driver.i >= Len(driver.thr_list)
       THEN driver' = [driver EXCEPT !.pc = "raised", !.error = "IndexError"]
       ELSE /\ Finished(driver.thr_list[driver.i + 1])
            /\ driver' = [driver EXCEPT !.i = @ + 1]
    /\ UNCHANGED << args, coord, hosts, launch, remote_returns_list_list, local_vars >>

\* lines 447-449: with -n, one line per host with that host's list
PrintRemote ==
    /\ driver.pc = "print"
    /\ driver' = [driver EXCEPT
                    !.pc = "done",
                    !.printed = IF args.nodes = "" THEN << >>
                                ELSE remote_returns_list_list]
    /\ UNCHANGED << args, coord, hosts, launch, remote_returns_list_list, local_vars >>

\* ------------------------------------------------ start_remote_instances
\* lines 334-344: the hosts file is read again, and for each host the
\* command line and its thread are made
LaunchBuild ==
    /\ launch.pc = "build"
    /\ launch' = [launch EXCEPT
                    !.pc = "start", !.i = 1,
                    !.cmdline = [h \in 1..Len(hosts) |-> CmdLine(args, hosts[h])],
                    !.threads = [h \in 1..Len(hosts) |-> "created"]]
    /\ UNCHANGED << args, coord, driver, hosts, remote_returns_list_list, local_vars >>

\* lines 345-346: threads[i].start() for every host
LaunchStart ==
    /\ launch.pc = "start"
    /\ launch' = IF launch.i > Len(hosts)
                 THEN [launch EXCEPT !.pc = "join", !.i = 1]
                 ELSE [launch EXCEPT !.threads[launch.i] = "running", !.i = @ + 1]
    /\ UNCHANGED << args, coord, driver, hosts, remote_returns_list_list, local_vars >>

\* thread_start_remote (lines 321-327): subprocess.run returns when the
\* command has ended, and the tagged output is appended to the host's list
ThreadStartRemote(h) ==
    /\ launch.pc \in {"start", "join"}
    /\ h \in 1..Len(hosts)
    /\ launch.threads[h] = "running"
    /\ \E stdout \in Outputs(launch.cmdline[h]) :
         remote_returns_list_list' =
           [remote_returns_list_list EXCEPT ![h] = Append(@, Tagged(hosts[h], stdout))]
    /\ launch' = [launch EXCEPT !.threads[h] = "done"]
    /\ UNCHANGED << args, coord, driver, hosts, local_vars >>

\* lines 347-350: threads[i].join() for every thread, then the return
LaunchJoin ==
    /\ launch.pc = "join"
    /\ IF launch.i > Len(hosts)
       THEN launch' = [launch EXCEPT !.pc = "done"]
       ELSE /\ launch.threads[launch.i] = "done"
            /\ launch' = [launch EXCEPT !.i = @ + 1]
    /\ UNCHANGED << args, coord, driver, hosts, remote_returns_list_list, local_vars >>

\* --------------------------------------------------- the whole program
\* the command lines of the program the model draws (lines 397-412): a
\* flood is given neither -u nor -e and has at most MaxWorkers workers, a
\* soak has one worker and a duration of two ticks
DriverConfigs ==
    { a \in [processes : 1..MaxProcs, threads : 1..MaxThreads,
             soak : {None} \cup RateGoals, duration : {1, 2}, user : BOOLEAN,
             session : BOOLEAN, inputfile : {NoInput, "MiLoad/addresses"},
             remote : BOOLEAN, nodes : {"", "nodes"}] :
        /\ a.processes * a.threads <= MaxWorkers
        /\ a.soak = None => (~a.user /\ ~a.session /\ a.duration = 1)
        /\ a.soak # None => (a.processes * a.threads = 1 /\ a.duration = 2) }

\* the program at line 425: args parsed, nothing started
DriverInit ==
    /\ args \in DriverConfigs
    /\ urls = << Url(ShortStreet) >>
    /\ hosts \in (IF args.nodes = "" THEN {<< >>} ELSE HostLists)
    /\ now = 0
    /\ coord = [pc |-> "unborn", p |-> 1, stats |-> << >>, report |-> NoReport]
    /\ queues = [p \in Procs |-> << >>]
    /\ proc = [p \in Procs |-> IdleProc]
    /\ worker = [p \in Procs |-> [t \in Threads |-> IdleWorker]]
    /\ results = [p \in Procs |-> [t \in Threads |-> << >>]]
    /\ user_count = [p \in Procs |-> [t \in Threads |-> << >>]]
    /\ csv = NoFile
    /\ driver = IdleDriver
    /\ launch = IdleLaunch
    /\ remote_returns_list_list = << >>

DriverStep ==
    \/ OpenNodes
    \/ StartRemoteThread
    \/ StartLocalThread
    \/ JoinThread
    \/ PrintRemote
    \/ LaunchBuild
    \/ LaunchStart
    \/ \E h \in 1..MaxHosts : ThreadStartRemote(h)
    \/ LaunchJoin

DriverNext == Step \/ Tick \/ DriverStep

DriverSpec == DriverInit /\ [][DriverNext]_vars

\* =========================================================== properties
ActiveProcs   == 1..args.processes
ActiveThreads == 1..args.threads

\* the summaries process p has put on its queue so far: those still in the
\* queue and the one start_procs has taken
Taken(p) ==
    \/ coord.pc = "collect" /\ coord.p > p
    \/ coord.pc \in {"totals", "join", "done"} /\ p <= Len(coord.stats)

PutCount(p) == Len(queues[p]) + (IF Taken(p) THEN 1 ELSE 0)

\* start_procs has printed the overall statistics
Emitted == coord.pc \in {"join", "done"}

AllEmpty(rows) == \A k \in 1..Len(rows) : rows[k].keys = {}

RECURSIVE SumOver(_, _)
\* f[1] + ... + f[n]
SumOver(f, n) == IF n = 0 THEN 0 ELSE SumOver(f, n - 1) + f[n]

\* C1: in soak mode without user simulation a worker that ends has appended
\* at least one record, and a worker whose iteration completed with more
\* than the duration elapsed issues no further request: from the check of
\* that iteration it goes nowhere but to its end.
C1_TubStopsAfterDuration ==
    [][\A p \in Procs, t \in Threads :
         Mode = "tub" =>
           /\ (worker[p][t].pc = "check"
               /\ now - worker[p][t].begin > args.duration)
              => worker'[p][t].pc \in {"check", "done"}
           /\ worker'[p][t].pc = "done" => Len(results'[p][t]) >= 1]_vars

\* C2: a connection failure is never fatal to a process: whatever requests
\* abort, a process whose workers have finished and whose aggregation has
\* run has put exactly one summary on its queue.
C2_AbortNeverFatal ==
    \A p \in Procs :
      proc[p].pc \in {"exited", "raised"} => PutCount(p) = 1

\* C3: the aggregation step of main over a result set in which every record
\* is aborted completes without raising and reports a NaN mean elapsed time.
C3_AllAbortedMeanIsNaN ==
    \A p \in Procs :
      (proc[p].pc \in {"exited", "raised"} /\ AllEmpty(proc[p].results))
        => (proc[p].pc = "exited" /\ proc[p].avg_time = NaN)

\* C4: a worker's buffer is append-only and a record is immutable once it
\* is completed: no step shortens a buffer or changes a record that a
\* response has filled.
C4_RecordsImmutable ==
    [][\A p \in Procs, t \in Threads :
         /\ Len(results'[p][t]) >= Len(results[p][t])
         /\ \A k \in 1..Len(results[p][t]) :
              results[p][t][k].keys # {} => results'[p][t][k] = results[p][t][k]]_vars

\* the summary process p has put: on its queue, or taken by start_procs
Summary(p) == IF queues[p] # << >> THEN Head(queues[p]) ELSE coord.stats[p]

\* how often row r occurs in rows
Count(r, rows) == Cardinality({ k \in 1..Len(rows) : rows[k] = r })

\* the number of records in the buffers of the threads of process p
Buffered(p) == SumOver([t \in Threads |-> Len(results[p][t])], args.threads)

\* C5: each process puts at most one summary on its own queue, and
\* start_procs prints the overall statistics only when it has taken exactly
\* one summary from each of the P processes, each that process's own; while
\* some process has ended without a summary it has neither printed nor
\* returned.
C5_StatsAfterAllSummaries ==
    /\ \A p \in Procs : PutCount(p) <= 1
    /\ Emitted =>
         /\ Len(coord.stats) = args.processes
         /\ \A p \in ActiveProcs :
              /\ proc[p].pc = "exited"
              /\ queues[p] = << >>
              /\ coord.stats[p] = StatsDict(proc[p].results, proc[p].total_users,
                                            proc[p].all_elapsed)
    /\ (\E p \in ActiveProcs : proc[p].pc = "raised")
         => coord.pc \in {"spawn", "collect"}

C5_Witness ==
    /\ args.processes >= 2
    /\ coord.pc = "done"
    /\ \E p \in ActiveProcs : \E k \in 1..Len(proc[p].results) :
         proc[p].results[k].keys = {}

\* C6: a soak worker loop runs at most IterCap (the code's 1000) iterations
\* whatever the duration and the delay: a one_tub worker never has more
\* than IterCap records, a many_users worker never simulates more than
\* IterCap users.
C6_LoopsCapped ==
    \A p \in Procs, t \in Threads :
      /\ Mode \in {"tub", "users"} => worker[p][t].i < IterCap
      /\ Mode = "tub" => Len(results[p][t]) <= IterCap
      /\ Mode = "users" =>
           /\ Len(user_count[p][t]) <= 1
           /\ \A k \in 1..Len(user_count[p][t]) : user_count[p][t][k] <= IterCap

\* the cap alone ends a loop: a negative delay, the duration not yet over
C6_Witness ==
    \E p \in Procs, t \in Threads :
      /\ Mode = "tub"
      /\ worker[p][t].pc = "done"
      /\ worker[p][t].delay < 0
      /\ Len(results[p][t]) = IterCap
      /\ now - worker[p][t].begin <= args.duration

C8_OneUserStepCount ==
    \A p \in Procs, t \in Threads :
      (Mode = "users" /\ worker[p][t].pc = "ucheck") =>
         /\ Len(worker[p][t].url.street) <= 3 => worker[p][t].requests = 1
         /\ Len(worker[p][t].url.street) >= 11 => worker[p][t].requests = 8

\* C9: the totals start_procs prints are, over the P processes, the sum of
\* the result counts, the mean of the elapsed times (as printed: its integer
\* part) and the sum of the user rates, each process counted once.
C9_TotalsOverProcesses ==
    Emitted =>
      /\ coord.report.total_results =
           SumOver([p \in Procs |-> Len(proc[p].results)], args.processes)
      /\ coord.report.elapsed =
           SumOver([p \in Procs |-> proc[p].all_elapsed], args.processes)
             \div args.processes
      /\ coord.report.user_rate_sum =
           SumOver([p \in Procs |-> proc[p].user_rate], args.processes)

C9_Witness ==
    /\ Emitted
    /\ args.processes >= 2
    /\ coord.report.user_rate_sum > 0
    /\ coord.report.total_results >= 2

Sleeping(w) == w.pc \in {"sleep", "usleep"}

\* C11: no soak worker ever applies a negative sleep: the delay soak
\* computes is non-negative whenever W/rate > 0.04, and a worker that
\* enters the sleep between two issuances sleeps its own delay, which is
\* not negative; when the computed delay is negative a one_tub worker never
\* sleeps and a many_users worker sleeps 0.
C11_NoNegativeSleep ==
    [][\A p \in Procs, t \in Threads :
         /\ (args.soak # None /\ args.threads * TicksPerSec > args.soak)
              => Delay(args.threads, args.soak) >= 0
         /\ (Sleeping(worker'[p][t]) /\ ~Sleeping(worker[p][t]))
              => /\ worker'[p][t].wake - now >= 0
                 /\ worker'[p][t].wake - now = worker[p][t].delay
                 /\ proc[p].delay < 0
                      => (Mode = "users" /\ worker'[p][t].wake = now)]_vars

\* a many_users worker given a negative delay is in its sleep of 0, and a
\* worker of another run slept a positive delay
C11_Witness ==
    \E p \in Procs, t \in Threads :
      /\ proc[p].delay < 0
      /\ Delay(args.threads, args.soak) < 0
      /\ worker[p][t].pc = "usleep"
      /\ worker[p][t].delay = 0
      /\ worker[p][t].wake = now

\* the threads of process p have been joined and their containers merged
Merged(p) == proc[p].pc \in {"aggregate", "exited", "raised"}

\* C12: within a process a container is written by its own worker only: a
\* step that changes results[p][t] or user_count[p][t] is either the main
\* thread creating the containers before any thread exists, or a step of
\* worker t of process p and of no other thread; a flood worker only ever
\* has the one dict results[i]; and the main thread merges only when every
\* worker has ended, after which no container changes and the merge is the
\* chain of the containers.
C12_ContainersOwned ==
    [][\A p \in Procs, t \in Threads :
         /\ (results'[p][t] # results[p][t] \/ user_count'[p][t] # user_count[p][t])
              => \/ /\ proc[p].pc = "main"
                    /\ \A u \in Threads : worker[p][u].pc = "idle"
                 \/ /\ worker'[p][t] # worker[p][t]
                    /\ proc' = proc
                    /\ \A q \in Procs, u \in Threads :
                         << q, u >> # << p, t >> =>
                           /\ worker'[q][u] = worker[q][u]
                           /\ results'[q][u] = results[q][u]
                           /\ user_count'[q][u] = user_count[q][u]
         /\ Mode = "flood" => Len(results'[p][t]) <= 1
         /\ Merged(p)' =>
              /\ \A u \in ActiveThreads : worker[p][u].pc = "done"
              /\ proc'[p].results = Chain(results'[p], args.threads)
              /\ proc'[p].total_users =
                   (IF Mode = "flood" THEN 0
                    ELSE SumCounts(user_count'[p], args.threads))]_vars

\* two workers of one process have each written their own container, one
\* of them more than once, and the main thread has merged them
C12_Witness ==
    \E p \in Procs :
      /\ args.threads >= 2
      /\ Merged(p)
      /\ \A t \in ActiveThreads :
           /\ \E k \in 1..Len(results[p][t]) : results[p][t][k].keys = AllKeys
           /\ Len(user_count[p][t]) = 1
      /\ Len(proc[p].results) >= 3

\* C13: in flood mode a worker goes from its start to its one request and
\* from the request to its end, so a worker that has ended has issued
\* exactly one request; a request is left only when its response or its
\* abort has come; flood returns only when all W workers have been started
\* and have ended, and what it returns is W records, worker t's at
\* position t, each filled or (aborted) left empty.
C13_FloodOneRequestEach ==
    [][Mode = "flood" =>
         \A p \in Procs, t \in Threads :
           /\ worker'[p][t].pc # worker[p][t].pc =>
                << worker[p][t].pc, worker'[p][t].pc >> \in
                  { << "idle", "started" >>, << "started", "request" >>,
                    << "request", "done" >> }
           /\ (worker[p][t].pc = "request" /\ worker'[p][t].pc = "done")
                => /\ now >= worker[p][t].wake
                   /\ worker[p][t].target = 1
                   /\ results'[p][t][1].keys \in {{}, AllKeys}
           /\ Merged(p)' =>
                /\ proc[p].i > args.threads
                /\ \A u \in ActiveThreads : worker[p][u].pc = "done"
                /\ Len(proc'[p].results) = args.threads
                /\ \A u \in ActiveThreads :
                     proc'[p].results[u] = results[p][u][1]]_vars

\* flood has returned two records, one of them aborted and one filled
C13_Witness ==
    \E p \in Procs :
      /\ Mode = "flood"
      /\ args.threads >= 2
      /\ Merged(p)
      /\ Len(proc[p].results) = args.threads
      /\ proc[p].results[1].keys = {}
      /\ proc[p].results[2].keys = AllKeys

\* C15: with P > 1 processes the raw rows of every process are persisted:
\* once all processes have exported and reported, the persisted rows (the
\* file results.csv, the only file main writes) hold the rows of each of
\* the P processes, so they are as many as the P processes' rows together
\* and every row of every process is among them.
C15_EveryProcessPersisted ==
    (args.processes >= 2 /\ \A p \in ActiveProcs : proc[p].pc = "exited")
      => /\ Len(csv) = SumOver([p \in Procs |-> Len(proc[p].results)],
                               args.processes)
         /\ \A p \in ActiveProcs : \A k \in 1..Len(proc[p].results) :
              Count(proc[p].results[k], csv) >= 1

\* C14: the command line start_remote_instances builds for a host carries
\* the workload of the local run: the instance it starts parses its
\* arguments without error and gets the local soak rate, thread count,
\* duration, process count, session flag, user flag and address input.
C14_RemoteSameWorkload ==
    \A h \in 1..Len(launch.cmdline) :
      LET r == RemoteArgs(launch.cmdline[h])
      IN  /\ ~r.error
          /\ r.soak = args.soak
          /\ r.threads = args.threads
          /\ r.duration = args.duration
          /\ r.processes = args.processes
          /\ r.session = args.session
          /\ r.user = args.user
          /\ r.inputfile = args.inputfile

Max(a, b) == IF a > b THEN a ELSE b

\* the prefix of length n of a street
Prefix(street, n) == [k \in 1..n |-> street[k]]

InUser(w) == w.pc \in {"type", "request", "typed"}

\* C17: a many_users worker looks at the duration and at the cap between
\* users only.  A user in progress always runs to its end; the users are
\* counted 0, 1, ... as they start; after a user that ends with more than
\* the duration elapsed no other user starts; the worker simulates at least
\* 1 and at most IterCap (the code's 1000) users; it records one count,
\* when it ends: the number of users it started; and the total_users of
\* soak is the sum of the counts of the workers.
C17_UsersCheckedBetweenUsers ==
    [][Mode = "users" =>
         \A p \in Procs, t \in Threads :
           LET w == worker[p][t]
               v == worker'[p][t]
           IN  /\ InUser(w) => (InUser(v) \/ v.pc = "ucheck")
               /\ (w.pc = "started" /\ v.pc = "user") => v.i = 0
               /\ (w.pc = "usleep" /\ v.pc = "user") => v.i = w.i + 1
               /\ (w.pc # "usleep" /\ w.pc # "started") => v.i = w.i
               /\ (w.pc = "ucheck" /\ now - w.begin > args.duration)
                    => v.pc \in {"ucheck", "done"}
               /\ v.pc = "user" => v.i < IterCap
               /\ user_count'[p][t] =
                    (IF v.pc = "done" THEN << v.i + 1 >> ELSE << >>)
               /\ v.pc = "done" => (1 <= v.i + 1 /\ v.i + 1 <= IterCap)
               /\ Merged(p)' =>
                    proc'[p].total_users =
                      SumOver([u \in Threads |-> user_count[p][u][1]],
                              args.threads)]_vars

\* a worker went on to a second user, sent a request of that user when the
\* duration had passed, ended with the count 2, and soak has summed up
C17_Witness ==
    \E p \in Procs, t \in Threads :
      /\ Mode = "users"
      /\ Merged(p)
      /\ user_count[p][t] = << 2 >>
      /\ proc[p].total_users >= 2
      /\ \E k \in 1..Len(results[p][t]) :
           /\ results[p][t][k].keys = AllKeys
           /\ results[p][t][k].start - worker[p][t].begin > args.duration

\* the time at which thread t of process p was started: a soak worker
\* takes its begin, a flood worker the start of its request, as it starts
StartedAt(p, t) ==
    IF Mode = "flood" THEN worker[p][t].start ELSE worker[p][t].begin

\* C18 as stated: in soak mode the measurement of the elapsed time begins
\* when the last worker has been started, so that the stagger between the
\* starts is not in it; in flood mode it begins before the first start.
C18_SoakExcludesStagger ==
    \A p \in Procs :
      Merged(p) =>
        IF Mode = "flood"
        THEN proc[p].all_start <= StartedAt(p, 1)
        ELSE proc[p].all_start >= StartedAt(p, args.threads)

\* C18, amended: in soak mode as in flood mode the measurement begins as
\* the first worker is started and ends after the last join: worker t was
\* started t-1 staggers after all_start, and the elapsed time is the time
\* from all_start to the end of the joins, at least one stagger per worker.
C18_BothIncludeStagger ==
    [][\A p \in Procs :
         (Merged(p)' /\ ~Merged(p)) =>
           /\ \A t \in ActiveThreads :
                StartedAt(p, t) = proc[p].all_start + (t - 1) * Stagger
           /\ proc'[p].all_start = proc[p].all_start
           /\ proc'[p].all_elapsed = now - proc[p].all_start
           /\ proc'[p].all_elapsed >= args.threads * Stagger]_vars

\* a soak of two workers has been measured: the second worker started a
\* stagger after the measurement began
C18_Witness ==
    \E p \in Procs :
      /\ Mode # "flood"
      /\ Merged(p)
      /\ args.threads >= 2
      /\ StartedAt(p, 2) > proc[p].all_start
      /\ proc[p].all_elapsed > now - StartedAt(p, 2)

\* C19: whatever -r and -n are, the driver raises no error; once it is at
\* its joins it has started the thread of start_procs, and that of
\* start_remote_instances exactly when a nodes file is given; and when it
\* has left the joins it has joined as many threads as it started.
C19_DriverEndsCleanly ==
    /\ driver.pc # "raised"
    /\ driver.pc \in {"join", "print", "done"} =>
         driver.thr_list =
           (IF args.nodes = "" THEN << "start_procs" >>
            ELSE << "start_remote_instances", "start_procs" >>)
    /\ driver.pc \in {"print", "done"} => driver.i = Len(driver.thr_list)

\* C20: start_remote_instances makes one launcher thread per host, has
\* started them all when it joins and returns only when all have ended; a
\* host's list never holds more than one entry, holds exactly one when
\* start_remote_instances has returned, and the entry is the host's name,
\* ':::' and the captured output, which may be empty; and the driver has
\* printed the lists, one per host, only with the thread of
\* start_remote_instances and the thread of start_procs both joined.
C20_OneResultPerHost ==
    /\ launch.pc \in {"start", "join", "done"} =>
         Len(launch.threads) = Len(hosts)
    /\ launch.pc \in {"join", "done"} =>
         \A h \in 1..Len(hosts) : launch.threads[h] \in {"running", "done"}
    /\ \A h \in 1..Len(remote_returns_list_list) :
         /\ Len(remote_returns_list_list[h]) <= 1
         /\ \A k \in 1..Len(remote_returns_list_list[h]) :
              \E out \in {"", "{user_rate}"} :
                remote_returns_list_list[h][k] = hosts[h] \o ":::" \o out
    /\ launch.pc = "done" =>
         /\ Len(remote_returns_list_list) = Len(hosts)
         /\ \A h \in 1..Len(hosts) :
              /\ launch.threads[h] = "done"
              /\ Len(remote_returns_list_list[h]) = 1
    /\ (driver.pc = "done" /\ args.nodes # "") =>
         /\ launch.pc = "done"
         /\ coord.pc = "done"
         /\ driver.thr_list = << "start_remote_instances", "start_procs" >>
         /\ driver.printed = remote_returns_list_list
         /\ Len(driver.printed) = Len(hosts)

\* two hosts, one launch without output and one with: the driver has
\* printed both lists
C20_Witness ==
    /\ driver.pc = "done"
    /\ Len(hosts) = 2
    /\ driver.printed = << << hosts[1] \o ":::" >>,
                           << hosts[2] \o ":::{user_rate}" >> >>

====
